---- MODULE Spec2Model ----
(***************************************************************************)
(* Translation pipeline of core/services/ai_service.py (AIService):        *)
(* translate_text, _split_text_by_sections, _translate_single_chunk,       *)
(* stream_translate_text and translate_html_content, and the views that    *)
(* call them: translate_contract (apps/contracts/views.py) and             *)
(* translate_text (apps/api/views.py).                                     *)
(*                                                                         *)
(* A text is a sequence of lexical units.  Every pattern of the code       *)
(* treats each unit atomically, and sizes are counted in units:            *)
(*   "a"   an ordinary character         "t"   a character the translator  *)
(*   SP    a blank, NL a line break            adds                        *)
(*   H     "## " (heading marker and the first blank after it)            *)
(*   D     <div ... style="..." ...>     E     </div>                      *)
(*   "I1","I2"  <img ... src="data:image/..." ...> (two distinct images)   *)
(*   "P0","P1",..  the text __SIGNATURE_IMAGE_PLACEHOLDER_<idx>__          *)
(*   L     <a href="..." target="_blank">   B   (_____________)            *)
(*   SIG   the word SIGNATURES           FENCE  ```                        *)
(*   COVER <div ... style="...page-break-after: always...">, the opening   *)
(*         tag of a cover page           SEP   the separator "\n\n---\n\n" *)
(* Positions are Python positions (0-based); Slice(s, a, b) is s[a:b].     *)
(* strip() removes whole units only: the blank inside a trailing H stays.  *)
(***************************************************************************)
EXTENDS Integers, Sequences, FiniteSets, TLC

NL == "NL"
SP == "SP"
H == "H"
D == "D"
E == "E"
L == "L"
B == "B"
SIG == "SIG"
FENCE == "FENCE"
SEP == "SEP"
COVER == "COVER"
None == "None"

\* max_chunk_size (line 1759, and chunk_size of line 1752) and the threshold
\* of line 1658, scaled from 40000 and 50000 characters to units; the longest
\* text handed to the splitter alone; the most parts of a document.
max_chunk_size == 5
single_call_limit == 6
MaxLen == 8
MaxParts == 3

(***************************************************************************)
(* Python string primitives                                                *)
(***************************************************************************)
Min(a, b) == IF a < b THEN a ELSE b

IsSpace(c) == c \in {SP, NL}

\* s[a:b] for 0 <= a
Slice(s, a, b) == SubSeq(s, a + 1, Min(b, Len(s)))

\* s[a:]
From(s, a) == SubSeq(s, a + 1, Len(s))

\* s.startswith(sub, p)
MatchAt(s, sub, p) ==
    /\ p + Len(sub) <= Len(s)
    /\ \A i \in 1..Len(sub) : s[p + i] = sub[i]

\* s.find(sub, p): the least position >= p where sub occurs, -1 if none
RECURSIVE Find(_, _, _)
Find(s, sub, p) ==
    IF p + Len(sub) > Len(s) THEN -1
    ELSE IF MatchAt(s, sub, p) THEN p
    ELSE Find(s, sub, p + 1)

\* s.rfind(sub, lo, hi): the greatest position p with lo <= p and p + len(sub) <= hi
RFind(s, sub, lo, hi) ==
    LET ps == {p \in lo..(Min(hi, Len(s)) - Len(sub)) : MatchAt(s, sub, p)}
    IN IF ps = {} THEN -1 ELSE CHOOSE p \in ps : \A q \in ps : q <= p

\* s.replace(old, new, 1)
ReplaceFirst(s, old, new) ==
    LET p == Find(s, old, 0)
    IN IF p = -1 THEN s ELSE Slice(s, 0, p) \o new \o From(s, p + Len(old))

\* s.replace(old, new), old non-empty: left to right, non-overlapping
RECURSIVE ReplaceAll(_, _, _)
ReplaceAll(s, old, new) ==
    LET p == Find(s, old, 0)
    IN IF p = -1 THEN s
       ELSE Slice(s, 0, p) \o new \o ReplaceAll(From(s, p + Len(old)), old, new)

\* sub in s
Contains(s, sub) == Find(s, sub, 0) # -1

RECURSIVE LStrip(_)
LStrip(s) == IF s # <<>> /\ IsSpace(Head(s)) THEN LStrip(Tail(s)) ELSE s

RECURSIVE RStrip(_)
RStrip(s) ==
    IF s # <<>> /\ IsSpace(s[Len(s)]) THEN RStrip(SubSeq(s, 1, Len(s) - 1)) ELSE s

\* s.strip()
Strip(s) == RStrip(LStrip(s))

\* the number of units of s that belong to set
CountIn(s, set) == Cardinality({i \in 1..Len(s) : s[i] \in set})

\* sep.join(parts)
RECURSIVE Join(_, _)
Join(parts, sep) ==
    IF parts = <<>> THEN <<>>
    ELSE IF Len(parts) = 1 THEN parts[1]
    ELSE parts[1] \o sep \o Join(Tail(parts), sep)

\* s.split('\n')
RECURSIVE SplitLines(_)
SplitLines(s) ==
    LET p == Find(s, <<NL>>, 0)
    IN IF p = -1 THEN <<s>> ELSE <<Slice(s, 0, p)>> \o SplitLines(From(s, p + 1))

\* the blank-line separator '\n\n'
BlankLine == <<NL, NL>>

(***************************************************************************)
(* _split_text_by_sections                                                 *)
(***************************************************************************)
\* the first position >= p that holds a line break, len(t) if none
RECURSIVE LineEnd(_, _)
LineEnd(t, p) ==
    IF p >= Len(t) THEN Len(t)
    ELSE IF t[p + 1] = NL THEN p
    ELSE LineEnd(t, p + 1)

\* the number of consecutive white-space units from position p on
RECURSIVE SpaceRun(_, _)
SpaceRun(t, p) ==
    IF p < Len(t) /\ IsSpace(t[p + 1]) THEN 1 + SpaceRun(t, p + 1) ELSE 0

\* ^(##\s+.+?)$ with re.MULTILINE tried at position p: the end of the match,
\* -1 if there is none.  \s+ is greedy and may take line breaks; .+? needs
\* one unit that is no line break and then runs to the end of its line.
HeadingMatchEnd(t, p) ==
    IF ~(p < Len(t) /\ t[p + 1] = H /\ (p = 0 \/ t[p] = NL)) THEN -1
    ELSE LET w == SpaceRun(t, p + 1)
             ks == {k \in 0..w : p + 1 + k < Len(t) /\ t[p + 1 + k + 1] # NL}
         IN IF ks = {} THEN -1
            ELSE LET k == CHOOSE x \in ks : \A y \in ks : y <= x
                 IN LineEnd(t, p + 1 + k + 1)

\* [m.start() for m in re.finditer(section_pattern, text, re.MULTILINE)]
RECURSIVE SectionStarts(_, _)
SectionStarts(t, p) ==
    IF p >= Len(t) THEN <<>>
    ELSE LET e == HeadingMatchEnd(t, p)
         IN IF e = -1 THEN SectionStarts(t, p + 1)
            ELSE <<p>> \o SectionStarts(t, e)

\* no headings: [text[i:i + chunk_size] for i in range(0, len(text), chunk_size)]
RECURSIVE SplitBySize(_, _, _)
SplitBySize(t, i, S) ==
    IF i >= Len(t) THEN <<>>
    ELSE <<Slice(t, i, i + S)>> \o SplitBySize(t, i + S, S)

\* the paragraph break test of the subdivision loop:
\* last_break > chunk_start + max_chunk_size * 0.7
BreakNotTooEarly(last_break, chunk_start, S) ==
    10 * last_break > 10 * chunk_start + 7 * S

\* a cut at the last paragraph break itself, wherever it lies
ChunkEndAtBreak(t, chunk_start, section_end, S) ==
    LET chunk_end == Min(chunk_start + S, section_end)
        last_break == RFind(t, BlankLine, chunk_start, chunk_end)
    IN IF chunk_end < section_end /\ last_break >= chunk_start
       THEN last_break
       ELSE chunk_end

\* where the chunk that starts at chunk_start ends
ChunkEnd(t, chunk_start, section_end, S) ==
    LET chunk_end == Min(chunk_start + S, section_end)
        last_break == RFind(t, BlankLine, chunk_start, chunk_end)
    IN IF chunk_end < section_end /\ BreakNotTooEarly(last_break, chunk_start, S)
       THEN last_break + 2
       ELSE chunk_end

\* while chunk_start < section_end: ... chunks.append(text[chunk_start:chunk_end].strip())
RECURSIVE Subdivide(_, _, _, _)
Subdivide(t, chunk_start, section_end, S) ==
    IF chunk_start >= section_end THEN <<>>
    ELSE LET chunk_end == ChunkEnd(t, chunk_start, section_end, S)
         IN <<Strip(Slice(t, chunk_start, chunk_end))>>
                \o Subdivide(t, chunk_end, section_end, S)

\* the test that lets a section (or the text before the first heading) join
\* a chunk: len(chunk) + len(section_content) <= max_chunk_size
FitsInto(chunk, content, S) == Len(chunk) + Len(content) <= S

\* a merge that keeps the section in place of the last chunk
CoalesceOverLast(chunks, section_content, S) ==
    IF chunks # <<>> /\ FitsInto(chunks[Len(chunks)], section_content, S)
    THEN [chunks EXCEPT ![Len(chunks)] = section_content]
    ELSE Append(chunks, section_content)

\* a section that is not too large: added to the last chunk or a new chunk
Coalesce(chunks, section_content, S) ==
    IF chunks # <<>> /\ FitsInto(chunks[Len(chunks)], section_content, S)
    THEN [chunks EXCEPT ![Len(chunks)] = @ \o BlankLine \o section_content]
    ELSE Append(chunks, section_content)

\* for i, match in enumerate(section_matches): ...
RECURSIVE ProcessSections(_, _, _, _, _)
ProcessSections(t, starts, i, chunks, S) ==
    IF i > Len(starts) THEN chunks
    ELSE LET section_start == starts[i]
             section_end == IF i + 1 <= Len(starts) THEN starts[i + 1] ELSE Len(t)
             section_content == Slice(t, section_start, section_end)
         IN IF Len(section_content) > S
            THEN ProcessSections(t, starts, i + 1,
                     chunks \o Subdivide(t, section_start, section_end, S), S)
            ELSE ProcessSections(t, starts, i + 1,
                     Coalesce(chunks, section_content, S), S)

\* the content before the first section
AddPreContent(t, starts, chunks, S) ==
    LET pre_content == Strip(Slice(t, 0, starts[1]))
    IN IF starts[1] > 0 /\ pre_content # <<>>
       THEN IF chunks # <<>> /\ FitsInto(chunks[1], pre_content, S)
            THEN [chunks EXCEPT ![1] = pre_content \o BlankLine \o @]
            ELSE <<pre_content>> \o chunks
       ELSE chunks

\* _split_text_by_sections with max_chunk_size (and chunk_size) S
SplitText(t, S) ==
    LET starts == SectionStarts(t, 0)
    IN IF starts = <<>> THEN SplitBySize(t, 0, S)
       ELSE LET chunks == AddPreContent(t, starts,
                              ProcessSections(t, starts, 1, <<>>, S), S)
            IN IF chunks # <<>> THEN chunks ELSE <<t>>

split_text_by_sections(t) == SplitText(t, max_chunk_size)

(***************************************************************************)
(* translate_text: protection of the signature images                      *)
(***************************************************************************)
Images == {"I1", "I2"}

\* f"__SIGNATURE_IMAGE_PLACEHOLDER_{idx}__"
PlaceholderUnits == <<"P0", "P1", "P2", "P3", "P4", "P5">>
Placeholder(idx) == <<PlaceholderUnits[idx + 1]>>
PlaceholderSet == {PlaceholderUnits[i] : i \in 1..Len(PlaceholderUnits)}

\* signature_pattern tried at position p: the end of the match, -1 if none
\* <div ... style="..." ...> \s* <img ... src="data:image/..." ...> \s* </div>
SignatureMatchEnd(t, p) ==
    IF ~(p < Len(t) /\ t[p + 1] = D) THEN -1
    ELSE LET q == p + 1 + SpaceRun(t, p + 1)
         IN IF ~(q < Len(t) /\ t[q + 1] \in Images) THEN -1
            ELSE LET r == q + 1 + SpaceRun(t, q + 1)
                 IN IF r < Len(t) /\ t[r + 1] = E THEN r + 1 ELSE -1

\* [m.group(0) for m in re.finditer(signature_pattern, text, ...)]
RECURSIVE SignatureMatches(_, _)
SignatureMatches(t, p) ==
    IF p >= Len(t) THEN <<>>
    ELSE LET e == SignatureMatchEnd(t, p)
         IN IF e = -1 THEN SignatureMatches(t, p + 1)
            ELSE <<Slice(t, p, e)>> \o SignatureMatches(t, e)

\* for idx, match in enumerate(matches):
\*     text = text.replace(match.group(0), placeholder, 1)
RECURSIVE ProtectText(_, _, _)
ProtectText(t, matches, idx) ==
    IF idx >= Len(matches) THEN t
    ELSE ProtectText(ReplaceFirst(t, matches[idx + 1], Placeholder(idx)),
                     matches, idx + 1)

(***************************************************************************)
(* _translate_single_chunk: what is kept of the external response          *)
(***************************************************************************)
\* the removal of a markdown code fence the service may add
StripFence(res) ==
    IF res # <<>> /\ Head(res) = FENCE
    THEN LET lines == SplitLines(res)
             l1 == Tail(lines)
             l2 == IF l1 # <<>> /\ Strip(l1[Len(l1)]) = <<FENCE>>
                   THEN SubSeq(l1, 1, Len(l1) - 1) ELSE l1
         IN Strip(Join(l2, <<NL>>))
    ELSE res

CleanResponse(raw) == Strip(StripFence(Strip(raw)))

(***************************************************************************)
(* translate_text: restoration of the signature images                     *)
(***************************************************************************)
\* the units that begin with '<'
AngleUnits == {D, E, L, COVER} \cup Images

\* the first position >= p that holds a unit beginning with '<', len(t) if none
RECURSIVE NextAngle(_, _)
NextAngle(t, p) ==
    IF p >= Len(t) THEN Len(t)
    ELSE IF t[p + 1] \in AngleUnits THEN p
    ELSE NextAngle(t, p + 1)

\* signature_section_pattern tried at position p: the end of the match, -1 if none
\* ##\s+[^\n]*SIGNATURES?[^\n]*\n[^<]*<div ... style="..." ...>
SectionMatchEnd(t, p) ==
    IF ~(p < Len(t) /\ t[p + 1] = H) THEN -1
    ELSE LET q == p + 1 + SpaceRun(t, p + 1)
             r == LineEnd(t, q)
             d == NextAngle(t, r + 1)
         IN IF /\ r < Len(t)
               /\ \E i \in q..(r - 1) : t[i + 1] = SIG
               /\ d < Len(t)
               /\ t[d + 1] = D
            THEN d + 1 ELSE -1

\* re.search(signature_section_pattern, translated, ...).end(), -1 if no match
RECURSIVE SectionSearch(_, _)
SectionSearch(t, p) ==
    IF p >= Len(t) THEN -1
    ELSE LET e == SectionMatchEnd(t, p)
         IN IF e = -1 THEN SectionSearch(t, p + 1) ELSE e

\* a fallback that appends the image at the end when no section is found
RestoreLostAppend(translated, original_html) ==
    LET pos == SectionSearch(translated, 0)
    IN IF pos # -1
       THEN Slice(translated, 0, pos) \o <<NL>> \o original_html \o From(translated, pos)
       ELSE translated \o <<NL>> \o original_html

\* a placeholder the translation lost: the fallback into the signatures section
RestoreLost(translated, original_html) ==
    LET pos == SectionSearch(translated, 0)
    IN IF pos # -1
       THEN Slice(translated, 0, pos) \o <<NL>> \o original_html \o From(translated, pos)
       ELSE translated

\* one turn of: for placeholder, original_html in signature_placeholders.items()
RestoreOne(translated, idx, original_html) ==
    IF Contains(translated, Placeholder(idx))
    THEN ReplaceAll(translated, Placeholder(idx), original_html)
    ELSE RestoreLost(translated, original_html)

RECURSIVE RestoreText(_, _, _)
RestoreText(translated, placeholders, idx) ==
    IF idx >= Len(placeholders) THEN translated
    ELSE RestoreText(RestoreOne(translated, idx, placeholders[idx + 1]),
                     placeholders, idx + 1)

\* the placeholders for which "Could not find signature section" is printed
RECURSIVE LostWarnings(_, _, _)
LostWarnings(translated, placeholders, idx) ==
    IF idx >= Len(placeholders) THEN <<>>
    ELSE (IF ~Contains(translated, Placeholder(idx))
             /\ SectionSearch(translated, 0) = -1
          THEN <<idx>> ELSE <<>>)
         \o LostWarnings(RestoreOne(translated, idx, placeholders[idx + 1]),
                         placeholders, idx + 1)

(***************************************************************************)
(* translate_text: post-translation validation                             *)
(***************************************************************************)
\* len(re.findall(r'<a\s+href="[^"]+"\s+target="_blank">', s))
CountLinks(s) == CountIn(s, {L})
\* s.count("(_____________)")
CountBlanks(s) == CountIn(s, {B})
\* len(re.findall(r'src="data:image/[^"]+?"', s))
CountImages(s) == CountIn(s, Images)

\* a validator that records a loss only
MismatchOnLoss(kind, original, translated) ==
    IF original > translated
    THEN <<[kind |-> kind, original |-> original, translated |-> translated]>>
    ELSE <<>>

\* if original != translated: validation_issues.append(...)
Mismatch(kind, original, translated) ==
    IF original # translated
    THEN <<[kind |-> kind, original |-> original, translated |-> translated]>>
    ELSE <<>>

ValidationIssues(original, translated) ==
    Mismatch("link", CountLinks(original), CountLinks(translated))
    \o Mismatch("placeholder", CountBlanks(original), CountBlanks(translated))
    \o Mismatch("image", CountImages(original), CountImages(translated))

(***************************************************************************)
(* The external translation capability                                     *)
(***************************************************************************)
RECURSIVE DropUnits(_, _)
DropUnits(s, set) ==
    IF s = <<>> THEN <<>>
    ELSE (IF Head(s) \in set THEN <<>> ELSE <<Head(s)>>) \o DropUnits(Tail(s), set)

\* What the service may answer to a request: the text unchanged, the text
\* without the placeholders, without its first blank marker, without its
\* first link, one character longer, or wrapped into a code fence.
Responses(input) ==
    { input,
      DropUnits(input, PlaceholderSet),
      ReplaceFirst(input, <<B>>, <<>>),
      ReplaceFirst(input, <<L>>, <<>>),
      input \o <<"t">>,
      <<FENCE, NL>> \o input \o <<NL, FENCE>> }

(***************************************************************************)
(* Inputs                                                                  *)
(***************************************************************************)
Parts ==
    { <<H, "a", NL>>,          \* a headed section
      <<"a", NL, NL>>,         \* a paragraph
      <<H, SIG, NL, D>>,       \* the signatures heading and its container
      <<D, "I1", E>>,          \* a signature image block
      <<D, "I2", E>>,          \* another one
      <<"P0">>,                \* text of the form of a placeholder
      <<L>>,                   \* a citation link
      <<B, B>> }               \* two blank markers

RECURSIVE Concats(_)
Concats(n) ==
    IF n = 0 THEN {<<>>}
    ELSE LET r == Concats(n - 1) IN r \cup {d \o q : d \in r, q \in Parts}

\* the documents handed to translate_text (the callers reject an empty text)
Docs == Concats(MaxParts) \ {<<>>}

\* the texts handed to _split_text_by_sections
SplitAlphabet == {H, NL, "a"}
RECURSIVE Strings(_)
Strings(n) ==
    IF n = 0 THEN {<<>>}
    ELSE LET r == Strings(n - 1) IN r \cup {Append(x, c) : x \in r, c \in SplitAlphabet}

SplitInputs == {x \in Strings(MaxLen) : Len(x) >= single_call_limit}

(***************************************************************************)
(* State                                                                   *)
(***************************************************************************)
VARIABLES
    pc,                     \* the position in translate_text
    api_key,                \* whether OPENAI_API_KEY is set
    doc,                    \* the argument text
    text,                   \* the local text (after protection)
    signature_placeholders, \* original_html of placeholder idx at idx + 1
    chunks,                 \* the result of _split_text_by_sections
    mode,                   \* "single": one call on text; "chunked": the loop
    calls,                  \* the requests made to the service, in order
    translated_chunks,
    reassembled,            \* translated before the restoration
    translated,
    validation_issues,
    console,                \* idx of each "Could not find signature section"
    result,                 \* the returned pair
    target_language,        \* the argument target_language
    accumulated_text,       \* stream_translate_text: the increments so far
    events,                 \* stream_translate_text: what it has yielded
    stream,                 \* the response stream of the open request
    caller,                 \* the consumer of the generator
    view,                   \* the frame of the view that calls the service
    other,                  \* the frame of a second, suspended invocation
    running,                \* the invocation whose frame the variables hold
    loop,                   \* _split_text_by_sections: the locals of its loops
    retry                   \* _make_api_call_with_retry: its locals and calls

\* the state outside the frame of translate_text
outside == <<target_language, accumulated_text, events, stream, caller, view,
             other, running, loop, retry>>

vars == <<pc, api_key, doc, text, signature_placeholders, chunks, mode, calls,
          translated_chunks, reassembled, translated, validation_issues,
          console, result, outside>>

NoResult == [text |-> None, error |-> None]

NoStream == [items |-> <<>>, next |-> 1]

NoResponse == [status |-> "none", code |-> 0, text |-> <<>>]

\* no view: the service is called directly
NoView ==
    [name |-> "none", pc |-> "none", full_contract_text |-> <<>>,
     use_streaming |-> FALSE,
     cover_page_html |-> <<>>, text_to_translate |-> <<>>,
     translated_cover_page_html |-> <<>>, cover_call |-> "none",
     sent |-> <<>>, response |-> NoResponse]

\* _split_text_by_sections is not running
NoLoop == [i |-> 0, chunk_start |-> 0]

\* _make_api_call_with_retry is not running
NoRetry ==
    [pc |-> "none", model_names |-> 0, attempt |-> 0, current_model_index |-> 0,
     requests |-> <<>>, slept |-> 0, result |-> NoResult]

\* one invocation of translate_text, nothing beside it
Alone ==
    /\ target_language = "Bengali"
    /\ accumulated_text = <<>>
    /\ events = <<>>
    /\ stream = NoStream
    /\ caller = "holding"
    /\ view = NoView
    /\ other = None
    /\ running = 1
    /\ loop = NoLoop
    /\ retry = NoRetry

Init ==
    /\ pc = "protect"
    /\ api_key \in BOOLEAN
    /\ doc \in Docs
    /\ text = doc
    /\ signature_placeholders = <<>>
    /\ chunks = <<>>
    /\ mode = None
    /\ calls = <<>>
    /\ translated_chunks = <<>>
    /\ reassembled = <<>>
    /\ translated = <<>>
    /\ validation_issues = <<>>
    /\ console = <<>>
    /\ result = NoResult
    /\ Alone

(***************************************************************************)
(* translate_text                                                          *)
(***************************************************************************)
\* the credentials are taken for present
NoCredentialsIgnored == FALSE

\* if not openai_api_key
NoCredentials == ~api_key

\* the texts translated one by one
Segments == IF mode = "single" THEN <<text>> ELSE chunks

Pending == {i \in 1..Len(calls) : calls[i].state = "pending"}

\* the missing key, else the protection of the signature images
Protect ==
    /\ pc = "protect"
    /\ IF NoCredentials
       THEN /\ result' = [text |-> None, error |-> "OpenAI API key is required"]
            /\ pc' = "done"
            /\ UNCHANGED <<text, signature_placeholders>>
       ELSE LET matches == SignatureMatches(text, 0)
            IN /\ signature_placeholders' = matches
               /\ text' = ProtectText(text, matches, 0)
               /\ pc' = "split"
               /\ UNCHANGED result
    /\ UNCHANGED <<api_key, doc, chunks, mode, calls, translated_chunks,
                   reassembled, translated, validation_issues, console>>
    /\ UNCHANGED outside

\* if len(text) < 50000: one call; else the split, and one call if one chunk
Split ==
    /\ pc = "split"
    /\ IF Len(text) < single_call_limit
       THEN /\ chunks' = <<>>
            /\ mode' = "single"
       ELSE /\ chunks' = split_text_by_sections(text)
            /\ mode' = IF Len(chunks') = 1 THEN "single" ELSE "chunked"
    /\ pc' = "translate"
    /\ UNCHANGED <<api_key, doc, text, signature_placeholders, calls,
                   translated_chunks, reassembled, translated,
                   validation_issues, console, result>>
    /\ UNCHANGED outside

\* a loop that does not wait for the previous request
AtRequestFanOut == TRUE

\* the loop is at a request: the previous one has returned
AtRequest == Pending = {}

\* the segment the next request is for
NextSegment == Len(translated_chunks) + 1

\* self._call_openai(...) is entered for the next segment
IssueCall ==
    /\ pc = "translate"
    /\ AtRequest
    /\ NextSegment <= Len(Segments)
    /\ Len(calls) < Len(Segments)
    /\ calls' = Append(calls, [segment |-> NextSegment,
                               input |-> Segments[NextSegment],
                               state |-> "pending",
                               raw |-> <<>>])
    /\ UNCHANGED <<pc, api_key, doc, text, signature_placeholders, chunks, mode,
                   translated_chunks, reassembled, translated,
                   validation_issues, console, result>>
    /\ UNCHANGED outside

\* where the loop goes after a translated segment
AfterSegment(done) == IF done = Len(Segments) THEN "reassemble" ELSE "translate"

\* the request returns a text
ReturnOk ==
    /\ pc = "translate"
    /\ \E c \in Pending : \E raw \in Responses(calls[c].input) :
         /\ calls' = [calls EXCEPT ![c].state = "ok", ![c].raw = raw]
         /\ translated_chunks' = Append(translated_chunks, CleanResponse(raw))
         /\ pc' = AfterSegment(Len(translated_chunks'))
    /\ UNCHANGED <<api_key, doc, text, signature_placeholders, chunks, mode,
                   reassembled, translated, validation_issues, console, result>>
    /\ UNCHANGED outside

\* a failure that hands back what has been translated so far
ErrorReturnPartial(segment) ==
    [text |-> Join(translated_chunks, BlankLine), error |-> None]

\* if error: return None, ...
ErrorReturn(segment) ==
    [text |-> None,
     error |-> IF mode = "single" THEN <<"error">>
               ELSE <<"Error translating chunk", segment>>]

\* the request fails: translate_text returns at once
ReturnError ==
    /\ pc = "translate"
    /\ \E c \in Pending :
         /\ calls' = [calls EXCEPT ![c].state = "failed"]
         /\ result' = ErrorReturn(calls[c].segment)
    /\ pc' = "done"
    /\ UNCHANGED <<api_key, doc, text, signature_placeholders, chunks, mode,
                   translated_chunks, reassembled, translated,
                   validation_issues, console>>
    /\ UNCHANGED outside

RECURSIVE Reverse(_)
Reverse(q) == IF q = <<>> THEN <<>> ELSE Append(Reverse(Tail(q)), Head(q))

\* a reassembly in the order of completion from the last to the first
JoinChunksReversed(tc) == Join(Reverse(tc), BlankLine)

\* translated = '\n\n'.join(translated_chunks)
JoinChunks(tc) == Join(tc, BlankLine)

Reassemble ==
    /\ pc = "reassemble"
    /\ reassembled' = IF mode = "single" THEN translated_chunks[1]
                      ELSE JoinChunks(translated_chunks)
    /\ translated' = reassembled'
    /\ pc' = "restore"
    /\ UNCHANGED <<api_key, doc, text, signature_placeholders, chunks, mode, calls,
                   translated_chunks, validation_issues, console, result>>
    /\ UNCHANGED outside

Restore ==
    /\ pc = "restore"
    /\ translated' = RestoreText(translated, signature_placeholders, 0)
    /\ console' = LostWarnings(translated, signature_placeholders, 0)
    /\ pc' = "validate"
    /\ UNCHANGED <<api_key, doc, text, signature_placeholders, chunks, mode, calls,
                   translated_chunks, reassembled, validation_issues, result>>
    /\ UNCHANGED outside

\* return translated.strip(), None
SuccessReturn(t, issues) == [text |-> Strip(t), error |-> None]

Validate ==
    /\ pc = "validate"
    /\ validation_issues' = ValidationIssues(text, translated)
    /\ result' = SuccessReturn(translated, validation_issues')
    /\ pc' = "done"
    /\ UNCHANGED <<api_key, doc, text, signature_placeholders, chunks, mode, calls,
                   translated_chunks, reassembled, translated, console>>
    /\ UNCHANGED outside

Next ==
    \/ Protect
    \/ Split
    \/ IssueCall
    \/ ReturnOk
    \/ ReturnError
    \/ Reassemble
    \/ Restore
    \/ Validate

Spec == Init /\ [][Next]_vars

(***************************************************************************)
(* _split_text_by_sections on its own                                      *)
(***************************************************************************)
InitSplit ==
    /\ pc = "split_text"
    /\ api_key = TRUE
    /\ text \in SplitInputs
    /\ doc = text
    /\ signature_placeholders = <<>>
    /\ chunks = <<>>
    /\ mode = None
    /\ calls = <<>>
    /\ translated_chunks = <<>>
    /\ reassembled = <<>>
    /\ translated = <<>>
    /\ validation_issues = <<>>
    /\ console = <<>>
    /\ result = NoResult
    /\ Alone

SplitOnly ==
    /\ pc = "split_text"
    /\ chunks' = split_text_by_sections(text)
    /\ pc' = "split_done"
    /\ UNCHANGED <<api_key, doc, text, signature_placeholders, mode, calls,
                   translated_chunks, reassembled, translated,
                   validation_issues, console, result>>
    /\ UNCHANGED outside

SpecSplit == InitSplit /\ [][SplitOnly]_vars

(***************************************************************************)
(* _split_text_by_sections on a text shorter than its size                 *)
(***************************************************************************)
\* a size that every text of up to MaxLen units is below
short_text_size == MaxLen + 1

ShortInputs == Strings(MaxLen) \ {<<>>}

InitShort ==
    /\ pc = "short_text"
    /\ api_key = TRUE
    /\ text \in ShortInputs
    /\ doc = text
    /\ signature_placeholders = <<>>
    /\ chunks = <<>>
    /\ mode = None
    /\ calls = <<>>
    /\ translated_chunks = <<>>
    /\ reassembled = <<>>
    /\ translated = <<>>
    /\ validation_issues = <<>>
    /\ console = <<>>
    /\ result = NoResult
    /\ Alone

SplitShort ==
    /\ pc = "short_text"
    /\ chunks' = SplitText(text, short_text_size)
    /\ pc' = "short_done"
    /\ UNCHANGED <<api_key, doc, text, signature_placeholders, mode, calls,
                   translated_chunks, reassembled, translated,
                   validation_issues, console, result>>
    /\ UNCHANGED outside

SpecShort == InitShort /\ [][SplitShort]_vars

(***************************************************************************)
(* stream_translate_text: a generator, run by the pulls of its consumer    *)
(***************************************************************************)
\* the responses of the streaming service, each cut into the chunks it sends:
\* one chunk; one chunk per unit; or two halves with an empty increment
\* between them and a chunk without content before and after
Item(content) == [has_content |-> TRUE, content |-> content]
NoContent == [has_content |-> FALSE, content |-> <<>>]

Cuts(raw) ==
    LET half == Len(raw) \div 2
    IN { <<Item(raw)>>,
         [i \in 1..Len(raw) |-> Item(<<raw[i]>>)],
         <<NoContent, Item(Slice(raw, 0, half)), Item(<<>>),
           Item(From(raw, half)), NoContent>> }

StreamResponses(input) == UNION {Cuts(raw) : raw \in Responses(input)}

\* the chunks of the open request read so far
Received == SubSeq(stream.items, 1, stream.next - 1)

\* for placeholder, original_html in ...: if placeholder in accumulated_text
RECURSIVE RestorePresent(_, _, _)
RestorePresent(acc, placeholders, idx) ==
    IF idx >= Len(placeholders) THEN acc
    ELSE RestorePresent(
            IF Contains(acc, Placeholder(idx))
            THEN ReplaceAll(acc, Placeholder(idx), placeholders[idx + 1])
            ELSE acc,
            placeholders, idx + 1)

\* an increment restored before it is handed to the consumer
ChunkEventRestored(content, placeholders) ==
    [type |-> "chunk", chunk |-> RestorePresent(content, placeholders, 0)]

\* yield chunk_data
ChunkEvent(content, placeholders) == [type |-> "chunk", chunk |-> content]

DoneEvent(t) == [type |-> "done", translated_text |-> t]

ErrorEvent(message) == [type |-> "error", error |-> message]

\* translated cover page + separator + translated content
FullTranslatedMd(cover, t) == IF cover # <<>> THEN cover \o <<SEP>> \o t ELSE t

\* a loop that answers an error of the service with a success
ForwardedSuccessOnError(v, e) ==
    IF v.pc = "none" THEN v
    ELSE IF e.type = "chunk"
    THEN [v EXCEPT !.sent = Append(@, [status |-> "streaming", chunk |-> e.chunk])]
    ELSE [v EXCEPT !.sent = Append(@,
                      [status |-> "success",
                       translated_md |-> v.translated_cover_page_html]),
                   !.pc = "done"]

\* the loop of translate_stream turns the event into an event of the response
Forwarded(v, e) ==
    IF v.pc = "none" THEN v
    ELSE IF e.type = "error"
    THEN [v EXCEPT !.sent = Append(@, [status |-> "error", message |-> e.error]),
                   !.pc = "done"]
    ELSE IF e.type = "chunk"
    THEN [v EXCEPT !.sent = Append(@, [status |-> "streaming", chunk |-> e.chunk])]
    ELSE [v EXCEPT !.sent = Append(@,
                      [status |-> "success",
                       translated_md |-> FullTranslatedMd(v.translated_cover_page_html,
                                                          e.translated_text)]),
                   !.pc = "done"]

\* a generator that runs on its own, pulled or not
PulledOrNot == view.pc \in {"none", "stream_body"}

\* the generator runs: its consumer is inside next()
Pulled == caller = "pulling" /\ view.pc \in {"none", "stream_body"}

\* yield e: the generator is suspended, the consumer has e
Yield(e) ==
    /\ events' = Append(events, e)
    /\ view' = Forwarded(view, e)
    /\ caller' = "holding"

\* the generator the consumer iterates is exhausted
StreamOver == IF view.pc = "none" THEN pc = "done" ELSE view.pc = "done"

\* the generator exists, is not exhausted, and waits for its consumer
Suspended ==
    /\ caller = "holding"
    /\ ~StreamOver
    /\ view.pc = "none" \/ (view.use_streaming /\ view.pc # "entry")

\* the consumer asks for the next event
Pull ==
    /\ Suspended
    /\ caller' = "pulling"
    /\ UNCHANGED <<pc, api_key, doc, text, signature_placeholders, chunks, mode,
                   calls, translated_chunks, reassembled, translated,
                   validation_issues, console, result, target_language,
                   accumulated_text, events, stream, view, other, running, loop, retry>>

\* the consumer stops iterating: the generator is never resumed
Abandon ==
    /\ Suspended
    /\ caller' = "abandoned"
    /\ UNCHANGED <<pc, api_key, doc, text, signature_placeholders, chunks, mode,
                   calls, translated_chunks, reassembled, translated,
                   validation_issues, console, result, target_language,
                   accumulated_text, events, stream, view, other, running, loop, retry>>

\* the missing key, else the protection of the signature images
StreamProtect ==
    /\ pc = "stream_entry"
    /\ Pulled
    /\ IF NoCredentials
       THEN /\ Yield(ErrorEvent("OpenAI API key is required"))
            /\ pc' = "done"
            /\ UNCHANGED <<text, signature_placeholders>>
       ELSE LET matches == SignatureMatches(text, 0)
            IN /\ signature_placeholders' = matches
               /\ text' = ProtectText(text, matches, 0)
               /\ pc' = "stream_request"
               /\ UNCHANGED <<events, view, caller>>
    /\ UNCHANGED <<api_key, doc, chunks, mode, calls, translated_chunks,
                   reassembled, translated, validation_issues, console, result,
                   target_language, accumulated_text, stream, other, running, loop, retry>>

\* client.chat.completions.create(..., stream=True) for the whole text
StreamRequest ==
    /\ pc = "stream_request"
    /\ Pulled
    /\ calls' = Append(calls, [segment |-> 1, input |-> text,
                               state |-> "pending", raw |-> <<>>])
    /\ \E items \in StreamResponses(text) : stream' = [items |-> items, next |-> 1]
    /\ accumulated_text' = <<>>
    /\ pc' = "stream_receive"
    /\ UNCHANGED <<api_key, doc, text, signature_placeholders, chunks, mode,
                   translated_chunks, reassembled, translated, validation_issues,
                   console, result, target_language, events, caller, view,
                   other, running, loop, retry>>

\* a chunk of the response with delta.content None: nothing is yielded
StreamSkip ==
    /\ pc = "stream_receive"
    /\ Pulled
    /\ stream.next <= Len(stream.items)
    /\ ~stream.items[stream.next].has_content
    /\ stream' = [stream EXCEPT !.next = @ + 1]
    /\ UNCHANGED <<pc, api_key, doc, text, signature_placeholders, chunks, mode,
                   calls, translated_chunks, reassembled, translated,
                   validation_issues, console, result, target_language,
                   accumulated_text, events, caller, view, other, running, loop, retry>>

\* an increment: accumulated_text += content; yield chunk_data
StreamChunk ==
    /\ pc = "stream_receive"
    /\ Pulled
    /\ stream.next <= Len(stream.items)
    /\ stream.items[stream.next].has_content
    /\ LET content == stream.items[stream.next].content
       IN /\ accumulated_text' = accumulated_text \o content
          /\ calls' = [calls EXCEPT ![Len(calls)].raw = @ \o content]
          /\ Yield(ChunkEvent(content, signature_placeholders))
    /\ stream' = [stream EXCEPT !.next = @ + 1]
    /\ UNCHANGED <<pc, api_key, doc, text, signature_placeholders, chunks, mode,
                   translated_chunks, reassembled, translated, validation_issues,
                   console, result, target_language, other, running, loop, retry>>

\* the end of the response: the restoration, then the last event
StreamDone ==
    /\ pc = "stream_receive"
    /\ Pulled
    /\ stream.next > Len(stream.items)
    /\ accumulated_text' = RestorePresent(accumulated_text, signature_placeholders, 0)
    /\ calls' = [calls EXCEPT ![Len(calls)].state = "ok"]
    /\ Yield(DoneEvent(accumulated_text'))
    /\ pc' = "done"
    /\ UNCHANGED <<api_key, doc, text, signature_placeholders, chunks, mode,
                   translated_chunks, reassembled, translated, validation_issues,
                   console, result, target_language, stream, other, running, loop, retry>>

\* the request or the reading of its response raises
StreamFail ==
    /\ pc = "stream_receive"
    /\ Pulled
    /\ calls' = [calls EXCEPT ![Len(calls)].state = "failed"]
    /\ Yield(ErrorEvent("Error calling OpenAI API"))
    /\ pc' = "done"
    /\ UNCHANGED <<api_key, doc, text, signature_placeholders, chunks, mode,
                   translated_chunks, reassembled, translated, validation_issues,
                   console, result, target_language, accumulated_text, stream,
                   other, running, loop, retry>>

\* the documents handed to stream_translate_text
StreamDocs == Concats(MaxParts - 1) \ {<<>>}

InitStream ==
    /\ pc = "stream_entry"
    /\ api_key \in BOOLEAN
    /\ doc \in StreamDocs
    /\ text = doc
    /\ signature_placeholders = <<>>
    /\ chunks = <<>>
    /\ mode = None
    /\ calls = <<>>
    /\ translated_chunks = <<>>
    /\ reassembled = <<>>
    /\ translated = <<>>
    /\ validation_issues = <<>>
    /\ console = <<>>
    /\ result = NoResult
    /\ Alone

NextStream ==
    \/ Pull
    \/ Abandon
    \/ StreamProtect
    \/ StreamRequest
    \/ StreamSkip
    \/ StreamChunk
    \/ StreamDone
    \/ StreamFail

SpecStream == InitStream /\ [][NextStream]_vars

(***************************************************************************)
(* The views: translate_contract (contracts/views.py), blocking and        *)
(* streaming, and translate_text (api/views.py)                            *)
(***************************************************************************)
Languages == {"English", "EN", "Bengali"}

\* target_language.lower()
Lower(language) ==
    CASE language = "English" -> "english"
      [] language = "EN" -> "en"
      [] language = "Bengali" -> "bengali"

\* if target_language.lower() in ['english', 'en']
IsEnglish(language) == Lower(language) \in {"english", "en"}

\* s.startswith('<div')
StartsWithDiv(s) == s # <<>> /\ Head(s) \in {D, COVER}

\* startswith('<div') and 'page-break-after' in it
IsCoverPage(s) == StartsWithDiv(s) /\ Contains(s, <<COVER>>)

\* re.search(r'<div ... page-break-after:\s*always ...>.*?</div>', ...)
CoverMatch(s) ==
    LET p == Find(s, <<COVER>>, 0)
        e == IF p = -1 THEN -1 ELSE Find(s, <<E>>, p)
    IN IF e = -1 THEN <<>> ELSE Slice(s, p, e + 1)

\* cover_page_html and text_to_translate of a contract text
ExtractCover(full) ==
    LET whole == [cover_page_html |-> <<>>, text_to_translate |-> full]
    IN IF Contains(full, <<SEP>>)
       THEN LET p == Find(full, <<SEP>>, 0)
                first == Strip(Slice(full, 0, p))
            IN IF IsCoverPage(first)
               THEN [cover_page_html |-> first,
                     text_to_translate |-> Strip(From(full, p + 1))]
               ELSE whole
       ELSE IF StartsWithDiv(Strip(full)) /\ Contains(full, <<COVER>>)
       THEN LET cover == CoverMatch(full)
            IN IF cover # <<>>
               THEN [cover_page_html |-> cover,
                     text_to_translate |-> Strip(ReplaceAll(full, cover, <<>>))]
               ELSE whole
       ELSE whole

\* translate_html_content: what is kept of the response
CleanHtml(raw) ==
    LET r1 == Strip(raw)
        r2 == IF r1 # <<>> /\ Head(r1) = FENCE THEN Strip(Tail(r1)) ELSE r1
        r3 == IF r2 # <<>> /\ r2[Len(r2)] = FENCE
              THEN Strip(SubSeq(r2, 1, Len(r2) - 1)) ELSE r2
    IN Strip(r3)

\* what the service may answer for a cover page: the page unchanged, its
\* text translated, the page in a code fence, or nothing
CoverResponses(cover) ==
    { <<>>,
      cover,
      [i \in 1..Len(cover) |-> IF cover[i] = "a" THEN "t" ELSE cover[i]],
      <<FENCE, NL>> \o cover \o <<NL, FENCE>> }

\* the frame of translate_text
frame == <<pc, doc, text, signature_placeholders, chunks, mode, calls,
           translated_chunks, reassembled, translated, validation_issues,
           console, result>>

\* translate_contract up to the translation: the answer for English, else
\* the separation of the cover page
ViewEntry ==
    /\ view.name = "translate_contract"
    /\ view.pc = "entry"
    /\ IF IsEnglish(target_language)
       THEN view' = [view EXCEPT
                       !.pc = "done",
                       !.response = [status |-> "success", code |-> 200,
                                     text |-> view.full_contract_text]]
       ELSE LET parts == ExtractCover(view.full_contract_text)
            IN view' = [view EXCEPT
                          !.pc = "cover",
                          !.cover_page_html = parts.cover_page_html,
                          !.text_to_translate = parts.text_to_translate,
                          !.translated_cover_page_html = parts.cover_page_html]
    /\ UNCHANGED <<frame, api_key, target_language, accumulated_text, events,
                   stream, caller, other, running, loop, retry>>

\* the view runs: always if blocking, on a pull of the response if streaming
ViewRuns == view.use_streaming => caller = "pulling"

\* no cover page, or translate_html_content without a key: the page as it is
CoverNoCall ==
    /\ view.pc = "cover"
    /\ ViewRuns
    /\ view.cover_page_html = <<>> \/ NoCredentials
    /\ view' = [view EXCEPT !.pc = "cover_done"]
    /\ UNCHANGED <<frame, api_key, target_language, accumulated_text, events,
                   stream, caller, other, running, loop, retry>>

\* translate_html_content enters self._call_openai
CoverIssue ==
    /\ view.pc = "cover"
    /\ ViewRuns
    /\ view.cover_page_html # <<>>
    /\ ~NoCredentials
    /\ view' = [view EXCEPT !.pc = "cover_call", !.cover_call = "pending"]
    /\ UNCHANGED <<frame, api_key, target_language, accumulated_text, events,
                   stream, caller, other, running, loop, retry>>

\* the cover page request returns a text
CoverOk ==
    /\ view.pc = "cover_call"
    /\ \E raw \in CoverResponses(view.cover_page_html) :
         view' = [view EXCEPT !.pc = "cover_done",
                              !.cover_call = "ok",
                              !.translated_cover_page_html = CleanHtml(raw)]
    /\ UNCHANGED <<frame, api_key, target_language, accumulated_text, events,
                   stream, caller, other, running, loop, retry>>

\* the cover page request fails: "using original"
CoverFail ==
    /\ view.pc = "cover_call"
    /\ view' = [view EXCEPT !.pc = "cover_done",
                            !.cover_call = "failed",
                            !.translated_cover_page_html = view.cover_page_html]
    /\ UNCHANGED <<frame, api_key, target_language, accumulated_text, events,
                   stream, caller, other, running, loop, retry>>

\* blocking: ai_service.translate_text(text_to_translate, target_language)
BodyCall ==
    /\ view.pc = "cover_done"
    /\ ~view.use_streaming
    /\ view' = [view EXCEPT !.pc = "body"]
    /\ pc' = "protect"
    /\ doc' = view.text_to_translate
    /\ text' = view.text_to_translate
    /\ UNCHANGED <<api_key, signature_placeholders, chunks, mode, calls,
                   translated_chunks, reassembled, translated,
                   validation_issues, console, result, target_language,
                   accumulated_text, events, stream, caller, other, running, loop, retry>>

\* streaming: the cover page event if there is a page, then the loop over
\* ai_service.stream_translate_text(text_to_translate, target_language)
BodyStream ==
    /\ view.pc = "cover_done"
    /\ view.use_streaming
    /\ IF view.translated_cover_page_html # <<>>
       THEN /\ view' = [view EXCEPT
                          !.pc = "stream_body",
                          !.sent = Append(@, [status |-> "cover_page",
                                              html |-> view.translated_cover_page_html])]
            /\ caller' = "holding"
       ELSE /\ view' = [view EXCEPT !.pc = "stream_body"]
            /\ UNCHANGED caller
    /\ pc' = "stream_entry"
    /\ doc' = view.text_to_translate
    /\ text' = view.text_to_translate
    /\ UNCHANGED <<api_key, signature_placeholders, chunks, mode, calls,
                   translated_chunks, reassembled, translated,
                   validation_issues, console, result, target_language,
                   accumulated_text, events, stream, other, running, loop, retry>>

\* api/views.py translate_text: ai_service.translate_text(text, target_language)
ApiCall ==
    /\ view.name = "translate_text"
    /\ view.pc = "entry"
    /\ view' = [view EXCEPT !.pc = "body",
                            !.text_to_translate = view.full_contract_text]
    /\ pc' = "protect"
    /\ doc' = view.full_contract_text
    /\ text' = view.full_contract_text
    /\ UNCHANGED <<api_key, signature_placeholders, chunks, mode, calls,
                   translated_chunks, reassembled, translated,
                   validation_issues, console, result, target_language,
                   accumulated_text, events, stream, caller, other, running, loop, retry>>

\* translate_text has returned: the error with status 500, else the success
Respond ==
    /\ view.pc = "body"
    /\ pc = "done"
    /\ view' = [view EXCEPT
                  !.pc = "done",
                  !.response =
                     IF result.error # None
                     THEN [status |-> "error", code |-> 500, text |-> <<>>]
                     ELSE [status |-> "success", code |-> 200,
                           text |-> IF view.name = "translate_contract"
                                    THEN FullTranslatedMd(
                                            view.translated_cover_page_html,
                                            result.text)
                                    ELSE result.text]]
    /\ UNCHANGED <<frame, api_key, target_language, accumulated_text, events,
                   stream, caller, other, running, loop, retry>>

\* the bodies of the contracts, and the contract texts: a body alone, after
\* a cover page and the separator, after a block that is no cover page and
\* the separator, and after a cover page without separator
ContractBodies ==
    { <<H, "a", NL>>,
      <<H, "a", NL, H, "a", NL>>,
      <<H, SIG, NL, D, D, "I1", E>>,
      <<"a", L, B>> }

ContractTexts ==
    UNION { { body,
              <<COVER, "a", E, SEP>> \o body,
              <<D, "a", E, SEP>> \o body,
              <<COVER, "a", E, NL>> \o body } : body \in ContractBodies }

EntryPoints ==
    { [name |-> "translate_contract", use_streaming |-> FALSE],
      [name |-> "translate_contract", use_streaming |-> TRUE],
      [name |-> "translate_text", use_streaming |-> FALSE] }

InitContract ==
    /\ pc = "idle"
    /\ api_key \in BOOLEAN
    /\ doc = <<>>
    /\ text = <<>>
    /\ signature_placeholders = <<>>
    /\ chunks = <<>>
    /\ mode = None
    /\ calls = <<>>
    /\ translated_chunks = <<>>
    /\ reassembled = <<>>
    /\ translated = <<>>
    /\ validation_issues = <<>>
    /\ console = <<>>
    /\ result = NoResult
    /\ target_language \in Languages
    /\ accumulated_text = <<>>
    /\ events = <<>>
    /\ stream = NoStream
    /\ caller = "holding"
    /\ \E full \in ContractTexts, entry \in EntryPoints :
         view = [NoView EXCEPT !.name = entry.name,
                               !.pc = "entry",
                               !.use_streaming = entry.use_streaming,
                               !.full_contract_text = full]
    /\ other = None
    /\ running = 1
    /\ loop = NoLoop
    /\ retry = NoRetry

NextContract ==
    \/ ViewEntry
    \/ CoverNoCall
    \/ CoverIssue
    \/ CoverOk
    \/ CoverFail
    \/ BodyCall
    \/ BodyStream
    \/ ApiCall
    \/ Respond
    \/ Protect
    \/ Split
    \/ IssueCall
    \/ ReturnOk
    \/ ReturnError
    \/ Reassemble
    \/ Restore
    \/ Validate
    \/ Pull
    \/ Abandon
    \/ StreamProtect
    \/ StreamRequest
    \/ StreamSkip
    \/ StreamChunk
    \/ StreamDone
    \/ StreamFail

SpecContract == InitContract /\ [][NextContract]_vars

(***************************************************************************)
(* Two invocations of translate_text on one AIService, interleaved          *)
(***************************************************************************)
\* the frame that the variables of translate_text hold
CurrentFrame ==
    [pc |-> pc, doc |-> doc, text |-> text,
     signature_placeholders |-> signature_placeholders, chunks |-> chunks,
     mode |-> mode, calls |-> calls, translated_chunks |-> translated_chunks,
     reassembled |-> reassembled, translated |-> translated,
     validation_issues |-> validation_issues, console |-> console,
     result |-> result]

\* a frame at the entry of translate_text(d, ...)
EntryFrame(d) ==
    [pc |-> "protect", doc |-> d, text |-> d, signature_placeholders |-> <<>>,
     chunks |-> <<>>, mode |-> None, calls |-> <<>>, translated_chunks |-> <<>>,
     reassembled |-> <<>>, translated |-> <<>>, validation_issues |-> <<>>,
     console |-> <<>>, result |-> NoResult]

\* a service that keeps the placeholder map in an attribute of the instance
ResumedSharingMap(saved) ==
    [saved EXCEPT !.signature_placeholders = signature_placeholders]

\* an invocation goes on with the locals it was suspended with
Resumed(saved) == saved

\* the other invocation gets the processor
Switch ==
    /\ other' = CurrentFrame
    /\ running' = 3 - running
    /\ LET r == Resumed(other)
       IN /\ pc' = r.pc
          /\ doc' = r.doc
          /\ text' = r.text
          /\ signature_placeholders' = r.signature_placeholders
          /\ chunks' = r.chunks
          /\ mode' = r.mode
          /\ calls' = r.calls
          /\ translated_chunks' = r.translated_chunks
          /\ reassembled' = r.reassembled
          /\ translated' = r.translated
          /\ validation_issues' = r.validation_issues
          /\ console' = r.console
          /\ result' = r.result
    /\ UNCHANGED <<api_key, target_language, accumulated_text, events, stream,
                   caller, view, loop, retry>>

TwoDocs ==
    { <<H, SIG, NL, D, D, "I1", E>>,
      <<D, "I2", E, L>>,
      <<H, "a", NL, H, "a", NL>> }

InitTwo ==
    /\ api_key \in BOOLEAN
    /\ \E d1 \in TwoDocs : \E d2 \in TwoDocs \ {d1} :
         /\ doc = d1
         /\ other = EntryFrame(d2)
    /\ pc = "protect"
    /\ text = doc
    /\ signature_placeholders = <<>>
    /\ chunks = <<>>
    /\ mode = None
    /\ calls = <<>>
    /\ translated_chunks = <<>>
    /\ reassembled = <<>>
    /\ translated = <<>>
    /\ validation_issues = <<>>
    /\ console = <<>>
    /\ result = NoResult
    /\ target_language = "Bengali"
    /\ accumulated_text = <<>>
    /\ events = <<>>
    /\ stream = NoStream
    /\ caller = "holding"
    /\ view = NoView
    /\ running = 1
    /\ loop = NoLoop
    /\ retry = NoRetry

NextTwo ==
    \/ Switch
    \/ Protect
    \/ Split
    \/ IssueCall
    \/ ReturnOk
    \/ ReturnError
    \/ Reassemble
    \/ Restore
    \/ Validate

SpecTwo == InitTwo /\ [][NextTwo]_vars

(***************************************************************************)
(* The two modes on one document: translate_text, then                     *)
(* stream_translate_text                                                   *)
(***************************************************************************)
\* a deterministic service: one of the answers of Responses, by its kind
Translators == {"same", "no_placeholders", "no_blank", "no_link", "longer", "fenced"}

Translate(kind, input) ==
    CASE kind = "same" -> input
      [] kind = "no_placeholders" -> DropUnits(input, PlaceholderSet)
      [] kind = "no_blank" -> ReplaceFirst(input, <<B>>, <<>>)
      [] kind = "no_link" -> ReplaceFirst(input, <<L>>, <<>>)
      [] kind = "longer" -> input \o <<"t">>
      [] kind = "fenced" -> <<FENCE, NL>> \o input \o <<NL, FENCE>>

\* the documents given to both modes
ModeDocs == Concats(MaxParts - 1) \ {<<>>}

InitModes ==
    /\ pc = "protect"
    /\ api_key = TRUE
    /\ doc \in ModeDocs
    /\ text = doc
    /\ signature_placeholders = <<>>
    /\ chunks = <<>>
    /\ mode = None
    /\ calls = <<>>
    /\ translated_chunks = <<>>
    /\ reassembled = <<>>
    /\ translated = <<>>
    /\ validation_issues = <<>>
    /\ console = <<>>
    /\ result = NoResult
    /\ Alone

\* translate_text has returned: stream_translate_text is called with the
\* same text and target_language; the frame of translate_text is kept
StartStream ==
    /\ running = 1
    /\ pc = "done"
    /\ other' = CurrentFrame
    /\ running' = 2
    /\ pc' = "stream_entry"
    /\ text' = doc
    /\ signature_placeholders' = <<>>
    /\ chunks' = <<>>
    /\ mode' = None
    /\ calls' = <<>>
    /\ translated_chunks' = <<>>
    /\ reassembled' = <<>>
    /\ translated' = <<>>
    /\ validation_issues' = <<>>
    /\ console' = <<>>
    /\ result' = NoResult
    /\ UNCHANGED <<api_key, doc, target_language, accumulated_text, events,
                   stream, caller, view, loop, retry>>

NextModes ==
    \/ Protect
    \/ Split
    \/ IssueCall
    \/ ReturnOk
    \/ ReturnError
    \/ Reassemble
    \/ Restore
    \/ Validate
    \/ StartStream
    \/ (running = 2 /\ Pull)
    \/ (running = 2 /\ Abandon)
    \/ StreamProtect
    \/ StreamRequest
    \/ StreamSkip
    \/ StreamChunk
    \/ StreamDone
    \/ StreamFail

SpecModes == InitModes /\ [][NextModes]_vars

(***************************************************************************)
(* _split_text_by_sections, one step of its loops at a time                *)
(***************************************************************************)
\* max_chunk_size scaled to a size whose 70% is a whole number, as that of
\* 40000 is
subdivide_size == 10

\* the section the for loop is at: its start and its end
SectionStart == SectionStarts(text, 0)[loop.i]

SectionEnd ==
    LET starts == SectionStarts(text, 0)
    IN IF loop.i + 1 <= Len(starts) THEN starts[loop.i + 1] ELSE Len(text)

\* a headed section longer than the size, with up to MaxBreaks line breaks
\* anywhere in it
MaxBreaks == 3

RECURSIVE Bodies(_)
Bodies(n) ==
    IF n = 0 THEN {<<>>}
    ELSE {Append(x, c) : x \in Bodies(n - 1), c \in {"a", NL}}

LongSections ==
    {<<H>> \o body : body \in {b \in Bodies(subdivide_size) \cup Bodies(subdivide_size + 1) :
                                  CountIn(b, {NL}) <= MaxBreaks}}

\* the empty text, texts without a heading, sections that are joined, and a
\* text before the first heading
LoopInputs ==
    LongSections \cup
    { <<>>,
      <<"a">>,
      <<"a", NL, "a">>,
      <<H, "a", NL, H, "a">>,
      <<"a", NL, H, "a", NL, H, "a">>,
      <<NL, H, "a">> }
        \cup {<<"a", NL>> \o t : t \in {x \in LongSections : x[9] = NL /\ x[10] = NL}}

\* before the call
InitLoop ==
    /\ pc = "loop_call"
    /\ api_key = TRUE
    /\ text = <<>>
    /\ doc = text
    /\ signature_placeholders = <<>>
    /\ chunks = <<>>
    /\ mode = None
    /\ calls = <<>>
    /\ translated_chunks = <<>>
    /\ reassembled = <<>>
    /\ translated = <<>>
    /\ validation_issues = <<>>
    /\ console = <<>>
    /\ result = NoResult
    /\ Alone

\* what the steps of the splitter leave alone
LoopFrame ==
    UNCHANGED <<api_key, doc, text, signature_placeholders, mode, calls,
                translated_chunks, reassembled, translated, validation_issues,
                console, result, target_language, accumulated_text, events,
                stream, caller, view, other, running, retry>>

\* _split_text_by_sections(text) is called
LoopCall ==
    /\ pc = "loop_call"
    /\ \E t \in LoopInputs :
          /\ text' = t
          /\ doc' = t
    /\ pc' = "loop_entry"
    /\ UNCHANGED <<api_key, signature_placeholders, chunks, mode, calls,
                   translated_chunks, reassembled, translated, validation_issues,
                   console, result>>
    /\ UNCHANGED outside

\* if not section_matches: the split by size, returned as it is
LoopEnter ==
    /\ pc = "loop_entry"
    /\ IF SectionStarts(text, 0) = <<>>
       THEN /\ chunks' = SplitBySize(text, 0, subdivide_size)
            /\ pc' = "loop_done"
            /\ UNCHANGED loop
       ELSE /\ chunks' = <<>>
            /\ loop' = [i |-> 1, chunk_start |-> 0]
            /\ pc' = "loop_section"
    /\ LoopFrame

\* for i, match in enumerate(section_matches): a section that is not too
\* large joins the last chunk or starts a chunk; a larger one is subdivided
LoopSection ==
    /\ pc = "loop_section"
    /\ loop.i <= Len(SectionStarts(text, 0))
    /\ \E section_start \in {SectionStart} :
       \E section_content \in {Slice(text, section_start, SectionEnd)} :
          IF Len(section_content) > subdivide_size
          THEN /\ loop' = [loop EXCEPT !.chunk_start = section_start]
               /\ pc' = "loop_while"
               /\ UNCHANGED chunks
          ELSE /\ chunks' = Coalesce(chunks, section_content, subdivide_size)
               /\ loop' = [loop EXCEPT !.i = @ + 1]
               /\ UNCHANGED pc
    /\ LoopFrame

\* one pass of while chunk_start < section_end
LoopCut ==
    /\ pc = "loop_while"
    /\ loop.chunk_start < SectionEnd
    /\ \E section_end \in {SectionEnd} :
       \E chunk_end \in {ChunkEnd(text, loop.chunk_start, section_end, subdivide_size)} :
       \E chunk \in {Slice(text, loop.chunk_start, chunk_end)} :
          /\ chunks' = Append(chunks, Strip(chunk))
          /\ loop' = [loop EXCEPT !.chunk_start = chunk_end]
    /\ UNCHANGED pc
    /\ LoopFrame

\* the while loop ends: the next section
LoopSectionEnd ==
    /\ pc = "loop_while"
    /\ loop.chunk_start >= SectionEnd
    /\ loop' = [loop EXCEPT !.i = @ + 1]
    /\ pc' = "loop_section"
    /\ UNCHANGED chunks
    /\ LoopFrame

\* after the for loop: the content before the first section, then
\* return chunks if chunks else [text]
LoopReturn ==
    /\ pc = "loop_section"
    /\ loop.i > Len(SectionStarts(text, 0))
    /\ \E section_matches \in {SectionStarts(text, 0)} :
       \E with_pre \in {AddPreContent(text, section_matches, chunks, subdivide_size)} :
          chunks' = IF with_pre # <<>> THEN with_pre ELSE <<text>>
    /\ pc' = "loop_done"
    /\ UNCHANGED loop
    /\ LoopFrame

NextLoop ==
    \/ LoopCall
    \/ LoopEnter
    \/ LoopSection
    \/ LoopCut
    \/ LoopSectionEnd
    \/ LoopReturn

\* the function runs to its return: no step of it waits for anything
SpecLoop == InitLoop /\ [][NextLoop]_vars /\ WF_vars(NextLoop)

(***************************************************************************)
(* _make_api_call_with_retry                                               *)
(***************************************************************************)
\* max_retries=3, the default that every caller uses
max_retries == 3

\* the most models in self.model_names (__init__ sets one)
MaxModels == 2

\* what a request to the model gives: a response, or an exception whose text
\* names a missing model, a quota or rate limit (without a delay, with
\* 'retry in 8.5s', or with a delay float() cannot read, as 'retry in
\* 1.2.3s'), or anything else
Outcomes ==
    {"ok", "not_found", "quota", "quota_delay", "quota_delay_malformed", "other"}

QuotaOutcomes == {"quota", "quota_delay", "quota_delay_malformed"}

InitRetry ==
    /\ pc = "retry"
    /\ api_key = TRUE
    /\ doc = <<>>
    /\ text = doc
    /\ signature_placeholders = <<>>
    /\ chunks = <<>>
    /\ mode = None
    /\ calls = <<>>
    /\ translated_chunks = <<>>
    /\ reassembled = <<>>
    /\ translated = <<>>
    /\ validation_issues = <<>>
    /\ console = <<>>
    /\ result = NoResult
    /\ Alone

\* what the steps of _make_api_call_with_retry leave alone
RetryFrame ==
    UNCHANGED <<pc, api_key, doc, text, signature_placeholders, chunks, mode,
                calls, translated_chunks, reassembled, translated,
                validation_issues, console, result, target_language,
                accumulated_text, events, stream, caller, view, other, running,
                loop>>

\* return ..., ...
Returned(r, text_, error) ==
    [r EXCEPT !.pc = "returned", !.result = [text |-> text_, error |-> error]]

\* continue
Continued(r) == [r EXCEPT !.attempt = @ + 1]

\* current_model_index += 1; continue
NextModel(r) == [r EXCEPT !.current_model_index = @ + 1, !.attempt = @ + 1]

\* the call, on a service with one model or more: current_model_index = 0
RetryEnter ==
    /\ retry.pc = "none"
    /\ \E n \in 1..MaxModels :
          retry' = [retry EXCEPT !.pc = "loop", !.model_names = n]
    /\ RetryFrame

\* one pass of the for loop: the request and what its outcome leads to
RetryRequest ==
    /\ retry.pc = "loop"
    /\ retry.attempt < max_retries * retry.model_names
    /\ \E outcome \in Outcomes :
          LET r == [retry EXCEPT !.requests =
                        Append(@, [model |-> retry.current_model_index,
                                   attempt |-> retry.attempt,
                                   outcome |-> outcome])]
              last_model == ~(r.current_model_index < r.model_names - 1)
          IN retry' =
                IF outcome = "ok" THEN Returned(r, "response.text.strip()", None)
                ELSE IF outcome = "not_found"
                THEN IF ~last_model THEN NextModel(r)
                     ELSE Returned(r, None, "None of the available models are supported")
                ELSE IF outcome \in QuotaOutcomes
                THEN IF outcome = "quota_delay_malformed"
                     THEN [r EXCEPT !.pc = "raised"]
                     ELSE IF ~last_model THEN NextModel(r)
                     ELSE IF r.attempt < max_retries - 1
                     THEN [r EXCEPT !.pc = "sleeping"]
                     ELSE Returned(r, None, "API quota/rate limit exceeded")
                ELSE IF ~last_model THEN NextModel(r)
                     ELSE Returned(r, None, "Error calling Gemini API")
    /\ RetryFrame

\* time.sleep(retry_seconds) is over: continue
RetryWake ==
    /\ retry.pc = "sleeping"
    /\ retry' = Continued([retry EXCEPT !.pc = "loop", !.slept = @ + 1])
    /\ RetryFrame

NextRetry ==
    \/ RetryEnter
    \/ RetryRequest
    \/ RetryWake

\* the function runs on: a request is answered or fails, a sleep ends
SpecRetry == InitRetry /\ [][NextRetry]_vars /\ WF_vars(NextRetry)

(***************************************************************************)
(* Properties                                                              *)
(***************************************************************************)
Succeeded == pc = "done" /\ result.error = None

\* the warnings the returned value carries
ResultWarnings == IF "warnings" \in DOMAIN result THEN result.warnings ELSE <<>>

\* the service answered every request with the text it was given
IdentityService == \A i \in 1..Len(calls) : calls[i].raw = calls[i].input

\* C1: in the chunked translate_text, once the request for segment k has
\* failed no request for a later segment exists, the invocation is over and
\* its result is a failure that carries no translated text.
C1_AbortOnFailure ==
    \A k \in 1..Len(calls) :
        (mode = "chunked" /\ calls[k].state = "failed") =>
            /\ Len(calls) = k
            /\ calls[k].segment = k
            /\ pc = "done"
            /\ result.text = None
            /\ result.error # None

\* a failure at a segment that has translated predecessors and successors
C1_Witness ==
    /\ mode = "chunked"
    /\ Len(chunks) >= 3
    /\ Len(calls) = 2
    /\ calls[2].state = "failed"
    /\ Len(translated_chunks) = 1
    /\ pc = "done"

\* C2: every signature image whose placeholder is missing from the
\* translation while no signatures section is found is named, by its idx,
\* in a warning of the returned result.
C2_LossReported ==
    Succeeded =>
        \A i \in 1..Len(console) :
            \E j \in 1..Len(ResultWarnings) : ResultWarnings[j] = console[i]

\* C3: a successful invocation returns the validation report with the
\* translated document.
C3_ReportReturned ==
    Succeeded => ResultWarnings = validation_issues

\* C4: the chunks of _split_text_by_sections joined by a blank line are the
\* text, unit for unit.
C4_SplitLossless ==
    pc = "split_done" => Join(chunks, BlankLine) = text

\* C5: every chunk of _split_text_by_sections has at most max_chunk_size
\* units, unless it is a single paragraph (it holds no blank line).
C5_SizeBound ==
    pc = "split_done" =>
        \A i \in 1..Len(chunks) :
            Len(chunks[i]) > max_chunk_size => ~Contains(chunks[i], BlankLine)

\* C6: in the chunked translate_text the reassembled text is the kept answers
\* to the requests for chunks 1..n, in that order, joined by blank lines.
C6_OrderPreserved ==
    (mode = "chunked" /\ pc \in {"restore", "validate"}) =>
        /\ Len(calls) = Len(chunks)
        /\ \A i \in 1..Len(calls) : calls[i].input = chunks[i]
        /\ reassembled =
             Join([i \in 1..Len(calls) |-> CleanResponse(calls[i].raw)], BlankLine)

\* answers of different lengths, none as long as its chunk
C6_Witness ==
    /\ mode = "chunked"
    /\ pc = "restore"
    /\ Len(translated_chunks) >= 3
    /\ Len(translated_chunks[1]) > Len(translated_chunks[2])
    /\ Len(translated_chunks[2]) < Len(translated_chunks[3])
    /\ Len(translated_chunks[1]) # Len(chunks[1])

\* C7: when the translation is the protected text unaltered, the restored
\* text is the document.
C7_RestoreInvertsProtect ==
    (pc = "validate" /\ reassembled = text) => translated = doc

\* C8: with a service that answers every request with its input, no
\* mismatch is recorded.
C8_IdentityNoMismatch ==
    (Succeeded /\ IdentityService) => validation_issues = <<>>

\* C9: at most one request is pending, the i-th request is for segment i,
\* and every request but the last has returned a text.
C9_Sequential ==
    /\ Cardinality(Pending) <= 1
    /\ \A i \in 1..Len(calls) :
         /\ calls[i].segment = i
         /\ i < Len(calls) => calls[i].state = "ok"

\* the request for the second segment is pending after the first returned
C9_Witness ==
    /\ mode = "chunked"
    /\ Len(calls) = 2
    /\ calls[1].state = "ok"
    /\ calls[2].state = "pending"

\* the counts the validator takes: of text (line 1711 on) and of translated
CountOf(kind, s) ==
    IF kind = "link" THEN CountLinks(s)
    ELSE IF kind = "placeholder" THEN CountBlanks(s)
    ELSE CountImages(s)

RECURSIVE TokensForBlocks(_, _, _)
TokensForBlocks(d, p, rank) ==
    IF p >= Len(d) THEN <<>>
    ELSE LET e == SignatureMatchEnd(d, p)
         IN IF e # -1
            THEN Placeholder(rank) \o TokensForBlocks(d, e, rank + 1)
            ELSE <<d[p + 1]>> \o TokensForBlocks(d, p + 1, rank)

\* C18: no token that stands for a protected image block occurs in the
\* document handed to translate_text, and the restoration of an unaltered
\* translation puts an image block only where the document had one.
C18_TokenFresh ==
    /\ \A idx \in 0..(Len(signature_placeholders) - 1) :
         ~Contains(doc, Placeholder(idx))
    /\ (pc = "validate" /\ reassembled = text) =>
         CountImages(translated) = CountImages(doc)

\* C20: after the protection of a document with n matched image blocks the
\* map holds the n blocks under the tokens 0..n-1 in document order, each
\* token occurs exactly once in the text, at the place of its block, the rest
\* of the text is the document's, and no matched block remains.
C20_ProtectExact ==
    pc = "split" =>
        LET blocks == SignatureMatches(doc, 0)
        IN /\ signature_placeholders = blocks
           /\ \A idx \in 0..(Len(blocks) - 1) :
                CountIn(text, {Placeholder(idx)[1]}) = 1
           /\ text = TokensForBlocks(doc, 0, 0)
           /\ SignatureMatches(text, 0) = <<>>

\* the same for the documents that hold no text of the form of a token
C20_ProtectExactFreshDoc ==
    (DropUnits(doc, PlaceholderSet) = doc) => C20_ProtectExact

C13_ShortOneCall ==
    (Len(text) < single_call_limit /\ pc \in {"reassemble", "restore", "validate"}) =>
        /\ mode = "single"
        /\ Len(calls) = 1
        /\ calls[1].input = text

\* every unit tok of t replaced by block
RECURSIVE SubstToken(_, _, _)
SubstToken(t, tok, block) ==
    IF t = <<>> THEN <<>>
    ELSE (IF Head(t) = tok THEN block ELSE <<Head(t)>>)
         \o SubstToken(Tail(t), tok, block)

\* the decision for one token: replaced where present; else put, after sep,
\* right after the opening container tag of the signatures region; else
\* nothing
DecideToken(t, tok, block, sep) ==
    IF \E i \in 1..Len(t) : t[i] = tok THEN SubstToken(t, tok, block)
    ELSE LET pos == SectionSearch(t, 0)
         IN IF pos # -1
            THEN SubSeq(t, 1, pos) \o sep \o block \o SubSeq(t, pos + 1, Len(t))
            ELSE t

RECURSIVE DecideTokens(_, _, _, _)
DecideTokens(t, blocks, idx, sep) ==
    IF idx >= Len(blocks) THEN t
    ELSE DecideTokens(DecideToken(t, PlaceholderUnits[idx + 1], blocks[idx + 1], sep),
                      blocks, idx + 1, sep)

Forwards ==
    LET chunk_events == SelectSeq(events, LAMBDA e : e.type = "chunk")
    IN [i \in 1..Len(chunk_events) |-> chunk_events[i].chunk]

\* the increments read from the response of the service, in the order read
Increments ==
    LET with_content == SelectSeq(Received, LAMBDA c : c.has_content)
    IN [i \in 1..Len(with_content) |-> with_content[i].content]

\* every token of 0..n-1 that t holds replaced by its block
RECURSIVE SubstTokens(_, _, _)
SubstTokens(t, blocks, idx) ==
    IF idx >= Len(blocks) THEN t
    ELSE SubstTokens(SubstToken(t, PlaceholderUnits[idx + 1], blocks[idx + 1]),
                     blocks, idx + 1)

DoneEvents == {i \in 1..Len(events) : events[i].type = "done"}

\* C15: stream_translate_text hands every increment it has read to its
\* consumer, as read and in the order read; as long as the end of the
\* response has not been seen nothing is restored; the one final event comes
\* after the whole response and carries the forwarded increments joined, with
\* every token still there replaced by its block.
C15_ForwardThenRestoreOnce ==
    /\ Forwards = Increments
    /\ DoneEvents = {} => accumulated_text = Join(Forwards, <<>>)
    /\ Cardinality(DoneEvents) <= 1
    /\ \A i \in DoneEvents :
         /\ i = Len(events)
         /\ stream.next > Len(stream.items)
         /\ events[i].translated_text =
              SubstTokens(Join(Forwards, <<>>), signature_placeholders, 0)

\* several increments, one of them a token, and the final event with the
\* image put back
C15_Witness ==
    /\ DoneEvents # {}
    /\ Len(Forwards) >= 2
    /\ \E i \in 1..Len(Forwards) : Forwards[i] = Placeholder(0)
    /\ Len(signature_placeholders) = 1
    /\ Contains(events[Len(events)].translated_text, signature_placeholders[1])

\* the view has answered with a success
ViewSucceeded ==
    \/ view.response.status = "success"
    \/ \E i \in 1..Len(view.sent) : view.sent[i].status = "success"

\* C11: a view answers with a success only if every request made for the
\* invocation, the one for the cover page included, has returned a text.
C11_SuccessOnlyIfAllCallsOk ==
    ViewSucceeded =>
        /\ view.cover_call # "failed"
        /\ \A i \in 1..Len(calls) : calls[i].state = "ok"

\* C12: with a target language that is English no request is made and the
\* view, whichever it is, answers with the text it was given.
C12_EnglishNoCall ==
    IsEnglish(target_language) =>
        /\ calls = <<>>
        /\ view.cover_call = "none"
        /\ view.pc = "done" =>
             /\ view.response.status = "success"
             /\ view.response.text = view.full_contract_text
             /\ validation_issues = <<>>

\* the same for translate_contract alone
C12_EnglishNoCallContract ==
    view.name = "translate_contract" => C12_EnglishNoCall

\* the requests made so far, to any operation of the service
NoRequestMade ==
    /\ calls = <<>>
    /\ view.cover_call = "none"
    /\ stream = NoStream

\* C14: without a key no request is ever made, translate_text returns the
\* error on the key and no text, stream_translate_text yields that error as
\* its only event, and the view hands the error on.
C14_NoCredentialsNoCall ==
    ~api_key =>
        /\ NoRequestMade
        /\ (pc = "done" /\ ~view.use_streaming) =>
             result = [text |-> None, error |-> "OpenAI API key is required"]
        /\ (pc = "done" /\ view.use_streaming) =>
             events = <<ErrorEvent("OpenAI API key is required")>>
        /\ (view.pc = "done" /\ pc = "done") =>
             IF view.use_streaming
             THEN view.sent[Len(view.sent)] =
                     [status |-> "error", message |-> "OpenAI API key is required"]
             ELSE view.response.status = "error"

\* a contract with a cover page, no key: both modes have ended in the error
C14_Witness ==
    /\ ~api_key
    /\ view.pc = "done"
    /\ view.cover_page_html # <<>>
    /\ view.use_streaming
    /\ Len(view.sent) = 2

\* the same, blocking
C14_WitnessBlocking ==
    /\ ~api_key
    /\ view.pc = "done"
    /\ view.cover_page_html # <<>>
    /\ view.response.status = "error"

\* C16: once the consumer of the streaming response has stopped iterating,
\* no request is made and nothing more is read or sent.
C16_AbandonStopsRequests ==
    [][caller = "abandoned" =>
          /\ caller' = "abandoned"
          /\ calls' = calls
          /\ stream' = stream
          /\ view'.cover_call = view.cover_call
          /\ view'.sent = view.sent]_vars

\* abandoned after the cover page event, before the request for the body
C16_Witness ==
    /\ caller = "abandoned"
    /\ view.use_streaming
    /\ view.pc = "stream_body"
    /\ view.cover_call = "ok"
    /\ pc = "stream_entry"
    /\ calls = <<>>

\* the frame of invocation i
FrameOf(i) == IF running = i THEN CurrentFrame ELSE other

\* the segments translate_text asks the service to translate for document d
SegmentsAlone(d) ==
    LET t == ProtectText(d, SignatureMatches(d, 0), 0)
        parts == split_text_by_sections(t)
    IN IF Len(t) < single_call_limit \/ Len(parts) = 1 THEN <<t>> ELSE parts

\* what translate_text returns for document d when run alone, given the
\* outcomes cs of its requests
ResultAlone(d, cs) ==
    LET blocks == SignatureMatches(d, 0)
        segments == SegmentsAlone(d)
        failed == {k \in 1..Len(cs) : cs[k].state = "failed"}
        kept == [k \in 1..Len(cs) |-> CleanResponse(cs[k].raw)]
    IN IF ~api_key
       THEN [text |-> None, error |-> "OpenAI API key is required"]
       ELSE IF failed # {}
       THEN [text |-> None,
             error |-> IF Len(segments) = 1 THEN <<"error">>
                       ELSE <<"Error translating chunk", CHOOSE k \in failed : TRUE>>]
       ELSE [text |-> Strip(RestoreText(Join(kept, BlankLine), blocks, 0)),
             error |-> None]

\* C17: each of two interleaved invocations of translate_text asks for the
\* segments of its own document and returns what it returns when run alone
\* with the same outcomes of its requests.
C17_Reentrant ==
    \A i \in {1, 2} :
        LET f == FrameOf(i)
        IN /\ \A k \in 1..Len(f.calls) : f.calls[k].input = SegmentsAlone(f.doc)[k]
           /\ f.pc = "done" => f.result = ResultAlone(f.doc, f.calls)

\* the first invocation has returned its document restored while the second
\* one, with another placeholder map, is between its protection and its end
C17_Witness ==
    /\ FrameOf(1).pc = "done"
    /\ FrameOf(1).result.error = None
    /\ FrameOf(1).signature_placeholders # <<>>
    /\ Contains(FrameOf(1).result.text, FrameOf(1).signature_placeholders[1])
    /\ FrameOf(2).pc = "translate"
    /\ FrameOf(2).signature_placeholders # <<>>
    /\ FrameOf(2).signature_placeholders # FrameOf(1).signature_placeholders

\* the whole of a merged chunk fits: chunk, joiner and content
FitsMerged(chunk, content, S) == Len(chunk) + Len(BlankLine) + Len(content) <= S

\* the sections in order, a section of at most S units merged into the last
\* chunk exactly when the merged chunk does not exceed S
RECURSIVE GreedyMerge(_, _, _, _, _)
GreedyMerge(t, starts, i, acc, S) ==
    IF i > Len(starts) THEN acc
    ELSE LET section_end == IF i + 1 <= Len(starts) THEN starts[i + 1] ELSE Len(t)
             section_content == Slice(t, starts[i], section_end)
         IN IF Len(section_content) > S
            THEN GreedyMerge(t, starts, i + 1,
                     acc \o Subdivide(t, starts[i], section_end, S), S)
            ELSE IF acc # <<>> /\ FitsMerged(acc[Len(acc)], section_content, S)
            THEN GreedyMerge(t, starts, i + 1,
                     [acc EXCEPT ![Len(acc)] = @ \o BlankLine \o section_content], S)
            ELSE GreedyMerge(t, starts, i + 1, Append(acc, section_content), S)

\* C22: for a text that begins with a heading the chunks are those of the
\* greedy scan that merges a section into the last chunk exactly when chunk,
\* joiner and section together do not exceed max_chunk_size.
C22_GreedyWithinCeiling ==
    LET starts == SectionStarts(text, 0)
    IN (pc = "split_done" /\ starts # <<>> /\ starts[1] = 0) =>
          chunks = GreedyMerge(text, starts, 1, <<>>, max_chunk_size)

\* the chunks of the headed sections, before the content that precedes them
SectionChunks(t) == ProcessSections(t, SectionStarts(t, 0), 1, <<>>, max_chunk_size)

\* C25: content before the first heading comes first: joined to the first
\* chunk by a blank line when the joined chunk does not exceed
\* max_chunk_size, else as a chunk of its own before the others.
C25_PreContentFirst ==
    LET starts == SectionStarts(text, 0)
        pre_content == IF starts = <<>> THEN <<>> ELSE Strip(Slice(text, 0, starts[1]))
        rest == SectionChunks(text)
    IN (pc = "split_done" /\ pre_content # <<>>) =>
          IF FitsMerged(pre_content, rest[1], max_chunk_size)
          THEN chunks = [rest EXCEPT ![1] = pre_content \o BlankLine \o @]
          ELSE chunks = <<pre_content>> \o rest

\* the same with the test of the code, which leaves the joiner out
C25_PreContentFirstAsCoded ==
    LET starts == SectionStarts(text, 0)
        pre_content == IF starts = <<>> THEN <<>> ELSE Strip(Slice(text, 0, starts[1]))
        rest == SectionChunks(text)
    IN (pc = "split_done" /\ pre_content # <<>>) =>
          /\ Slice(chunks[1], 0, Len(pre_content)) = pre_content
          /\ IF Len(pre_content) + Len(rest[1]) <= max_chunk_size
             THEN chunks = [rest EXCEPT ![1] = pre_content \o BlankLine \o @]
             ELSE chunks = <<pre_content>> \o rest

\* a text without its white space
NoSpace(s) == DropUnits(s, {SP, NL})

\* C27: the chunks of _split_text_by_sections, put together in order and
\* without white space, are the text without white space.
C27_ContentPreserved ==
    pc = "split_done" => NoSpace(Join(chunks, <<>>)) = NoSpace(text)

\* content before the first heading, a section that is subdivided, and
\* white space lost between the chunks
C27_Witness ==
    LET starts == SectionStarts(text, 0)
    IN /\ pc = "split_done"
       /\ starts # <<>>
       /\ starts[1] > 0
       /\ \E i \in 1..Len(starts) :
            (IF i < Len(starts) THEN starts[i + 1] ELSE Len(text)) - starts[i]
               > max_chunk_size
       /\ Len(chunks) >= 3
       /\ Join(chunks, <<>>) # text

\* translate_contract has separated the cover page of a text to translate
Separated ==
    /\ view.name = "translate_contract"
    /\ view.pc # "entry"
    /\ ~IsEnglish(target_language)

\* C23: translate_contract takes a cover page off exactly when the text
\* before the separator begins with '<div' and holds 'page-break-after'; in
\* every other case, a text without separator included, the whole text is
\* translated as the body.
C23_CoverOnlyBeforeSeparator ==
    Separated =>
        LET full == view.full_contract_text
            p == Find(full, <<SEP>>, 0)
            before == Strip(Slice(full, 0, p))
        IN IF /\ p # -1
              /\ before # <<>>
              /\ Head(before) \in {D, COVER}
              /\ \E i \in 1..Len(before) : before[i] = COVER
           THEN /\ view.cover_page_html = before
                /\ view.text_to_translate = Strip(From(full, p + 1))
           ELSE /\ view.cover_page_html = <<>>
                /\ view.text_to_translate = full

\* the same for the texts that hold the separator
C23_CoverWithSeparator ==
    Contains(view.full_contract_text, <<SEP>>) => C23_CoverOnlyBeforeSeparator

\* the text a successful answer carries, and the translated body in it
DeliveredMd ==
    IF view.use_streaming THEN view.sent[Len(view.sent)].translated_md
    ELSE view.response.text

TranslatedBody ==
    IF view.use_streaming THEN events[Len(events)].translated_text
    ELSE result.text

\* C24: a detected cover page is translated by its own request, the answer
\* of a success is the translated cover page, the separator and the
\* translated body, and no request for the body holds text of the cover page.
C24_CoverOwnCallThenBody ==
    (ViewSucceeded /\ Separated /\ view.cover_page_html # <<>>) =>
        /\ view.cover_call = "ok"
        /\ view.translated_cover_page_html # <<>>
        /\ DeliveredMd = view.translated_cover_page_html \o <<SEP>> \o TranslatedBody
        /\ \A i \in 1..Len(calls) : ~Contains(calls[i].input, view.cover_page_html)

\* the same when the request for the cover page has returned a text
C24_CoverTranslated ==
    (view.cover_call = "ok" /\ view.translated_cover_page_html # <<>>) =>
        C24_CoverOwnCallThenBody

\* C29: the events of the streaming translate_contract: a cover page event
\* only as the first event, a success or error event only as the last one,
\* a consumed stream ends with one; a success only after the end of the
\* response of the service, and none after an error of the service.
C29_EventOrder ==
    LET sent == view.sent
        n == Len(sent)
        IsTerminal(i) == sent[i].status \in {"success", "error"}
    IN /\ \A i \in 1..n : sent[i].status = "cover_page" => i = 1
       /\ \A i \in 1..n : IsTerminal(i) => i = n
       /\ (view.use_streaming /\ view.pc = "done" /\ Separated) =>
             n >= 1 /\ IsTerminal(n)
       /\ \A i \in 1..n : sent[i].status = "success" =>
             /\ DoneEvents # {}
             /\ stream.next > Len(stream.items)
             /\ \A j \in 1..Len(events) : events[j].type # "error"

\* a consumed stream: the cover page, several increments, the success
C29_Witness ==
    /\ view.use_streaming
    /\ view.pc = "done"
    /\ Len(view.sent) >= 4
    /\ view.sent[1].status = "cover_page"
    /\ view.sent[2].status = "streaming"
    /\ view.sent[Len(view.sent)].status = "success"

\* the requests of both invocations were answered by one deterministic service
SameTranslator(kind) ==
    /\ \A i \in 1..Len(other.calls) :
          other.calls[i].raw = Translate(kind, other.calls[i].input)
    /\ \A i \in 1..Len(calls) : calls[i].raw = Translate(kind, calls[i].input)

\* both modes have delivered a text for the document
BothDelivered ==
    /\ running = 2
    /\ pc = "done"
    /\ other.result.error = None
    /\ DoneEvents # {}

\* C26: for one document and one deterministic service, the text of the last
\* event of stream_translate_text is the text that translate_text returns.
C26_ModesAgree ==
    (BothDelivered /\ \E kind \in Translators : SameTranslator(kind)) =>
        events[Len(events)].translated_text = other.result.text

\* both modes send the same protected text when translate_text makes one request
C26_SameProtectedText ==
    (BothDelivered /\ other.mode = "single") =>
        /\ calls[1].input = other.calls[1].input
        /\ signature_placeholders = other.signature_placeholders

\* the answers of the service are those of its deterministic kinds
C26_TranslateIsResponse ==
    \A i \in 1..Len(calls) :
        Responses(calls[i].input) = {Translate(kind, calls[i].input) : kind \in Translators}

\* a pass of the subdivision loop whose cut is not the end of the section
CutInside == LoopCut /\ loop'.chunk_start # SectionEnd

\* positions of the paragraph breaks that lie within the first S units from
\* chunk_start
BreaksWithin(chunk_start, S) ==
    {p \in chunk_start..(chunk_start + S - 2) :
        MatchAt(text, BlankLine, p) /\ p + 2 <= Len(text)}

\* the cut as stated: after the last break if it lies at 70% of S or later
\* from chunk_start, else at S units from chunk_start
StatedCut(chunk_start, S) ==
    LET breaks == BreaksWithin(chunk_start, S)
        last_break == CHOOSE p \in breaks : \A q \in breaks : q <= p
    IN IF breaks # {} /\ 10 * (last_break - chunk_start) >= 7 * S
       THEN last_break + 2
       ELSE chunk_start + S

\* the same with a break at exactly 70% of S counted as too early
CodedCut(chunk_start, S) ==
    LET breaks == BreaksWithin(chunk_start, S)
        last_break == CHOOSE p \in breaks : \A q \in breaks : q <= p
    IN IF breaks # {} /\ 10 * (last_break - chunk_start) > 7 * S
       THEN last_break + 2
       ELSE chunk_start + S

\* C21: in the subdivision of a section longer than S, a cut that is not the
\* end of the section lies just after the last paragraph break within the
\* first S characters from the start of the subdivision if that break lies at
\* 70% of S or later (exactly 70% included), and at S characters otherwise.
C21_CutAtLastBreak ==
    [][CutInside => loop'.chunk_start = StatedCut(loop.chunk_start, subdivide_size)]_vars

\* the cut with a break at exactly 70% of S counted as too early
C21_CutAsCoded ==
    [][CutInside => loop'.chunk_start = CodedCut(loop.chunk_start, subdivide_size)]_vars

\* a pass of the subdivision loop moves chunk_start forward, by one unit at
\* least and not beyond the end of the section
Advances ==
    LoopCut => /\ loop'.chunk_start > loop.chunk_start
               /\ loop'.chunk_start <= SectionEnd

C28_StepsAgree ==
    pc = "loop_done" => chunks = SplitText(text, subdivide_size)

\* the requests made stay within max_retries * len(self.model_names)
WithinBudget == Len(retry.requests) <= max_retries * retry.model_names

\* what is returned is a text without an error or an error without a text
OneOfPair ==
    retry.pc = "returned" =>
        (retry.result.text = None) # (retry.result.error = None)

\* a model is asked again only after a quota error at an attempt below
\* max_retries - 1, and after a sleep
RetriesOnlyOnQuota ==
    \A k \in 1..(Len(retry.requests) - 1) :
        retry.requests[k + 1].model = retry.requests[k].model =>
            /\ retry.requests[k].outcome \in QuotaOutcomes
            /\ retry.requests[k].attempt < max_retries - 1
            /\ retry.slept >= 1

\* one sleep for each repeated request
SleepsCounted ==
    LET repeated == {k \in 1..(Len(retry.requests) - 1) :
                        retry.requests[k + 1].model = retry.requests[k].model}
    IN retry.slept \in {Cardinality(repeated), Cardinality(repeated) + 1}

ModelIndexGrows ==
    \A k \in 1..(Len(retry.requests) - 1) :
        retry.requests[k].model <= retry.requests[k + 1].model

\* an error that is no quota error, on the last model, ends the requests
OtherErrorIsLast ==
    \A k \in 1..Len(retry.requests) :
        (/\ retry.requests[k].outcome \in {"not_found", "other"}
         /\ retry.requests[k].model = retry.model_names - 1) =>
            (k = Len(retry.requests) /\ retry.pc = "returned")

\* C30: _make_api_call_with_retry returns, after max_retries *
\* len(model_names) requests at most, a text without error or an error without
\* text; it asks the same model again only after a quota or rate limit error
\* at an attempt below max_retries - 1, after a sleep; its model index never
\* decreases; another error on the last model is returned without a request
\* more.
C30_ReturnsWithinBudget ==
    /\ <>(retry.pc = "returned")
    /\ [](WithinBudget /\ OneOfPair)
    /\ [](RetriesOnlyOnQuota /\ SleepsCounted)
    /\ [](ModelIndexGrows /\ OtherErrorIsLast)

\* the same, the function ending by a return or by the ValueError of a delay
\* that float() cannot read
C30_ReturnsUnlessDelayMalformed ==
    /\ <>(retry.pc \in {"returned", "raised"})
    /\ [](retry.pc = "raised" =>
            retry.requests[Len(retry.requests)].outcome = "quota_delay_malformed")
    /\ [](WithinBudget /\ OneOfPair)
    /\ [](RetriesOnlyOnQuota /\ SleepsCounted)
    /\ [](ModelIndexGrows /\ OtherErrorIsLast)

\* the for loop never runs out: its last line is not reached
C30_LoopNeverExhausted ==
    retry.pc = "loop" => retry.attempt < max_retries * retry.model_names

====
